---- MODULE Spec2Model ----
(***************************************************************************)
(* Model of 0x02-redis_basic/exercise.py: the Cache facade over a Redis    *)
(* store, the count_calls and call_history decorators around Cache.store,  *)
(* and replay.                                                             *)
(*                                                                         *)
(* Python values are tagged records [t |-> type name, v |-> payload].      *)
(* Text and byte strings are sequences of one-character strings, so that   *)
(* str(), repr(), the client's byte encoding, utf-8 decoding and int() are *)
(* computed character by character, as the interpreter computes them.      *)
(***************************************************************************)
EXTENDS Integers, Sequences, FiniteSets, TLC

(* ------------------------------ bounds -------------------------------- *)
\* Invocations of Cache.store over the life of the Cache instance.
MaxCalls == 3
\* Concurrent callers sharing the Cache instance.
NumCallers == 2
\* Cache instances constructed over the same store.
MaxInstances == 2
Callers == 1..NumCallers

(* --------------------------- Python values ---------------------------- *)
PyNone == [t |-> "NoneType", v |-> <<>>]
PyStr(s) == [t |-> "str", v |-> s]
PyBytes(s) == [t |-> "bytes", v |-> s]
PyInt(n) == [t |-> "int", v |-> n]
\* A float with one decimal digit: v = <<whole, tenths>>, whole >= 0.
PyFloat(w, f) == [t |-> "float", v |-> <<w, f>>]
\* An exception leaving a call.
Raised(e) == [t |-> "raise", v |-> e]

DigitChars == <<"0", "1", "2", "3", "4", "5", "6", "7", "8", "9">>

DigitValue(c) == (CHOOSE i \in 1..10 : DigitChars[i] = c) - 1

IsDigit(c) == \E i \in 1..10 : DigitChars[i] = c

\* Decimal rendering of a natural number.
RECURSIVE NatToChars(_)
NatToChars(n) ==
    IF n < 10 THEN <<DigitChars[n + 1]>>
    ELSE NatToChars(n \div 10) \o <<DigitChars[(n % 10) + 1]>>

\* str(n) / repr(n) of an int.
IntToChars(n) == IF n < 0 THEN <<"-">> \o NatToChars(-n) ELSE NatToChars(n)

\* repr(x) of a float with one decimal digit.
FloatToChars(p) == NatToChars(p[1]) \o <<".">> \o NatToChars(p[2])

\* repr(x) for the DataType members (no quote or escape characters occur in
\* the modelled alphabet).
Repr(x) ==
    CASE x.t = "str" -> <<"'">> \o x.v \o <<"'">>
      [] x.t = "bytes" -> <<"b", "'">> \o x.v \o <<"'">>
      [] x.t = "int" -> IntToChars(x.v)
      [] x.t = "float" -> FloatToChars(x.v)
      [] x.t = "NoneType" -> <<"N", "o", "n", "e">>

\* str(args) for args = (data,): the rendering of a one-element tuple.
StrArgs(data) == PyStr(<<"(">> \o Repr(data) \o <<",", ")">>)

\* The Redis client's encoding of a value sent to the store: text is utf-8
\* encoded, bytes pass through, numbers are rendered in decimal.
Encode(x) ==
    CASE x.t = "str" -> PyBytes(x.v)
      [] x.t = "bytes" -> x
      [] x.t = "int" -> PyBytes(IntToChars(x.v))
      [] x.t = "float" -> PyBytes(FloatToChars(x.v))

\* bytes.decode("utf-8") (every modelled character is ASCII).
DecodeUtf8(b) == PyStr(b.v)

\* str(x), the decoder of get_str: for bytes it is the repr, not a decoding.
StrOf(x) ==
    CASE x.t = "str" -> x
      [] OTHER -> PyStr(Repr(x))

AllDigits(s) == Len(s) > 0 /\ \A i \in 1..Len(s) : IsDigit(s[i])

RECURSIVE DigitsToNat(_)
DigitsToNat(s) ==
    IF Len(s) = 0 THEN 0
    ELSE 10 * DigitsToNat(SubSeq(s, 1, Len(s) - 1)) + DigitValue(s[Len(s)])

\* Mutant: int() gives 0 for what it cannot parse.
IntOfLenient(x) ==
    IF x.t = "NoneType" \/ ~AllDigits(x.v) THEN PyInt(0)
    ELSE PyInt(DigitsToNat(x.v))

\* int(x), the decoder of get_int: an optional sign followed by decimal
\* digits, ValueError for any other bytes, TypeError for None.
IntOf(x) ==
    IF x.t = "NoneType" THEN Raised("TypeError")
    ELSE LET s == x.v
             signed == Len(s) > 0 /\ s[1] \in {"-", "+"}
             body == IF signed THEN Tail(s) ELSE s
         IN IF ~AllDigits(body) THEN Raised("ValueError")
            ELSE IF signed /\ s[1] = "-" THEN PyInt(-DigitsToNat(body))
            ELSE PyInt(DigitsToNat(body))

(* ------------------------------ inputs -------------------------------- *)
\* One value of each member of DataType = Union[str, bytes, int, float].
DataValues ==
    { PyStr(<<"f", "o">>), PyBytes(<<"a", "b">>), PyInt(12), PyFloat(2, 5) }

\* The values stored where the kind of value plays no part (interleaved
\* callers, several Cache instances): a text and a number.
ConcurrentValues == { PyStr(<<"f", "o">>), PyInt(12) }

\* Mutant: uuid4 returns the same value every time.
UUIDRepeated(i) == <<"u", "1">>

\* str(uuid4()): uuid4 never returns the same value twice; the values are
\* named in the order of their generation.
UUID(i) == <<"u">> \o NatToChars(i)

UUIDs == { UUID(i) : i \in 1..MaxCalls }

\* The keys generated over all the Cache instances.
AllUUIDs == { UUID(i) : i \in 1..(MaxCalls * MaxInstances) }

\* method.__qualname__ of the decorated method.
QualName == <<"C", "a", "c", "h", "e", ".", "s", "t", "o", "r", "e">>

\* The method argument of get: none, str (get_str) or int (get_int).
Decoders == {"none", "str", "int"}

\* The references replay can be given: None, a plain function (it has no
\* __self__), a method bound to an object that has no _redis attribute,
\* and the store method bound to the Cache.
MethodRefs == {"None", "function", "bound_other", "Cache.store"}

(* ------------------------------ state --------------------------------- *)
VARIABLES
    redisValid, \* isinstance(self._redis, redis.Redis)
    counter,    \* store key QualName: PyNone when absent, else bytes
    inputs,     \* store list QualName:inputs
    outputs,    \* store list QualName:outputs
    entries,    \* the other store keys: key -> bytes
    pc,         \* per caller: position inside an invocation of Cache.store
    arg,        \* per caller: data of the invocation in progress
    key,        \* per caller: key generated by the invocation in progress
    cur,        \* per caller: index in log of the invocation in progress
    log,        \* history: one record per invocation, in invocation order
    result,     \* what a call of get returned, in the state that follows it
    rpc,        \* position inside replay
    rinputs,    \* replay: local inputs
    rmethod,    \* replay: the method reference it was given
    rret,       \* replay: how the call ended
    printed,    \* replay: lines printed
    rops,       \* replay: store round trips made
    generated,  \* values uuid4 has returned so far
    instances   \* Cache instances constructed so far

storeVars == <<counter, inputs, outputs, entries>>
callVars == <<pc, arg, key, cur, log>>
replayVars == <<rpc, rinputs, rmethod, rret, printed, rops>>
instVars == <<generated, instances>>
vars == <<redisValid, storeVars, callVars, result, replayVars, instVars>>

\* The return value of a call that has not returned.
Pending == [t |-> "pending", v |-> <<>>]

\* No call of get is being observed.
NoGet == [key |-> <<>>, decoder |-> "none", value |-> Pending]

\* No call of replay is being observed.
NoReplay == "-"

Init ==
    /\ redisValid = TRUE
    /\ counter = PyNone
    /\ inputs = <<>>
    /\ outputs = <<>>
    /\ entries = [k \in {} |-> PyNone]
    /\ pc = [c \in Callers |-> "idle"]
    /\ arg = [c \in Callers |-> PyNone]
    /\ key = [c \in Callers |-> <<>>]
    /\ cur = [c \in Callers |-> 0]
    /\ log = <<>>
    /\ result = NoGet
    /\ rpc = "idle"
    /\ rinputs = <<>>
    /\ rmethod = NoReplay
    /\ rret = Pending
    /\ printed = <<>>
    /\ rops = 0
    /\ generated = 0
    /\ instances = 1

\* What a finished call of replay printed and returned is observable in the
\* state that follows its last step; a replay in progress keeps its locals.
ReplayObserved ==
    IF rpc = "idle"
    THEN /\ rpc' = "idle"
         /\ rinputs' = <<>>
         /\ rmethod' = NoReplay
         /\ rret' = Pending
         /\ printed' = <<>>
         /\ rops' = 0
    ELSE UNCHANGED replayVars

\* A step that is not a call of get or a step of replay.
Observed == result' = NoGet /\ ReplayObserved

(* ------------------------ the store primitives ------------------------ *)
\* INCR: an absent key is created at 1, else the decimal value is
\* incremented.
Incr(cnt) ==
    IF cnt = PyNone THEN PyBytes(IntToChars(1))
    ELSE PyBytes(IntToChars(IntOf(cnt).v + 1))

\* GET key: the bytes stored, or None for an absent key.
RedisGet(db, k) == IF k \in DOMAIN db THEN db[k] ELSE PyNone

\* SET key value.
RedisSet(db, k, b) == [x \in DOMAIN db \cup {k} |-> IF x = k THEN b ELSE db[x]]

\* RPUSH list value: the client encodes the value.
RPush(list, x) == Append(list, Encode(x))

(* ------------------- Cache.store and its decorators ------------------- *)
\* No invocation of store and no replay is in progress.
Quiet == rpc = "idle" /\ \A c \in Callers : pc[c] = "idle"

\* The invocation of caller c leaves both wrappers with value v.
Return(c, v) ==
    /\ pc' = [pc EXCEPT ![c] = "idle"]
    /\ arg' = [arg EXCEPT ![c] = PyNone]
    /\ key' = [key EXCEPT ![c] = <<>>]
    /\ cur' = [cur EXCEPT ![c] = 0]

\* Mutant: the wrapper never increments.
CounterNeverIncremented(valid, cnt) == cnt

\* count_calls.wrapper, the counter after its guarded increment.
CounterAfterCall(valid, cnt) == IF valid THEN Incr(cnt) ELSE cnt

\* count_calls.wrapper: the counter is incremented when the handle is a
\* Redis client, then the wrapped method (call_history.wrapper) is entered.
CountCalls(c, data) ==
    /\ pc[c] = "idle"
    /\ Len(log) < MaxCalls
    /\ counter' = CounterAfterCall(redisValid, counter)
    /\ pc' = [pc EXCEPT ![c] = "history"]
    /\ arg' = [arg EXCEPT ![c] = data]
    /\ cur' = [cur EXCEPT ![c] = Len(log) + 1]
    /\ log' = Append(log, [data |-> data, valid |-> redisValid,
                           counted |-> counter' # counter, inRec |-> FALSE,
                           written |-> FALSE, outRec |-> FALSE,
                           ret |-> Pending])
    /\ Observed
    /\ UNCHANGED <<instVars, redisValid, inputs, outputs, entries, key>>

\* Mutant: the wrapper does not look at the handle.
HistoryAlwaysProceeds(valid) == TRUE

\* call_history.wrapper, its guard: the wrapped method is called only when
\* the handle is a Redis client.
HistoryProceeds(valid) == valid

\* Mutant: the wrapper pushes str(args[0]) in place of str(args).
InputsFirstArgOnly(ins, data) == RPush(ins, StrOf(data))

\* Mutant: the wrapper records no input.
InputsNotRecorded(ins, data) == ins

\* call_history.wrapper, the inputs list after the push of str(args).
InputsAfterCall(ins, data) == RPush(ins, StrArgs(data))

\* call_history.wrapper up to the call of the wrapped method: str(args) is
\* pushed on the inputs list; with no Redis client the wrapper returns None.
CallHistory(c) ==
    /\ pc[c] = "history"
    /\ IF HistoryProceeds(redisValid)
       THEN /\ inputs' = InputsAfterCall(inputs, arg[c])
            /\ pc' = [pc EXCEPT ![c] = "method"]
            /\ log' = [log EXCEPT ![cur[c]].inRec = inputs' # inputs]
            /\ UNCHANGED <<arg, key, cur>>
       ELSE /\ Return(c, PyNone)
            /\ log' = [log EXCEPT ![cur[c]].ret = PyNone]
            /\ UNCHANGED inputs
    /\ Observed
    /\ UNCHANGED <<instVars, redisValid, counter, outputs, entries>>

\* Mutant: store writes str(data) in place of data.
StoredAsStr(data) == Encode(StrOf(data))

\* Cache.store, the value written under the generated key.
StoredValue(data) == Encode(data)

\* Cache.store: a fresh key is generated and the data written under it.
StoreSet(c) ==
    /\ pc[c] = "method"
    /\ generated' = generated + 1
    /\ LET k == UUID(generated')
       IN /\ entries' = RedisSet(entries, k, StoredValue(arg[c]))
          /\ key' = [key EXCEPT ![c] = k]
    /\ pc' = [pc EXCEPT ![c] = "stored"]
    /\ log' = [log EXCEPT ![cur[c]].written = entries' # entries]
    /\ Observed
    /\ UNCHANGED <<instances, redisValid, counter, inputs, outputs, arg, cur>>

\* Mutant: on a failed write the input recorded for the call is removed.
StoreSetFailsAndRollsBack(c) ==
    /\ pc[c] = "method"
    /\ Return(c, Raised("ConnectionError"))
    /\ log' = [log EXCEPT ![cur[c]].ret = Raised("ConnectionError")]
    /\ inputs' = SubSeq(inputs, 1, Len(inputs) - 1)
    /\ Observed
    /\ UNCHANGED <<instVars, redisValid, counter, outputs, entries>>

\* Cache.store: the write raises; the exception leaves both wrappers.
StoreSetFails(c) ==
    /\ pc[c] = "method"
    /\ Return(c, Raised("ConnectionError"))
    /\ log' = [log EXCEPT ![cur[c]].ret = Raised("ConnectionError")]
    /\ Observed
    /\ UNCHANGED <<instVars, redisValid, storeVars>>

\* Mutant: the output is pushed twice.
OutputsPushedTwice(outs, output) == RPush(RPush(outs, output), output)

\* call_history.wrapper, the outputs list after the push of the output.
OutputsAfterCall(outs, output) == RPush(outs, output)

\* call_history.wrapper after the wrapped method: the key is pushed on the
\* outputs list and returned through count_calls.wrapper.
StoreReturn(c) ==
    /\ pc[c] = "stored"
    /\ outputs' = OutputsAfterCall(outputs, PyStr(key[c]))
    /\ Return(c, PyStr(key[c]))
    /\ log' = [log EXCEPT ![cur[c]].outRec = outputs' # outputs,
                          ![cur[c]].ret = PyStr(key[c])]
    /\ Observed
    /\ UNCHANGED <<instVars, redisValid, counter, inputs, entries>>

\* The caller replaces the _redis attribute of the Cache between calls, by
\* a Redis client or by something that is not one.
SetRedisHandle(b) ==
    /\ Quiet
    /\ b # redisValid
    /\ redisValid' = b
    /\ Observed
    /\ UNCHANGED <<instVars, storeVars, callVars>>

\* Mutant: the constructor does not flush the database.
NotFlushed(value, empty) == value

\* FLUSHDB: what a key or list of the store holds after it.
Flushed(value, empty) == empty

\* Cache.__init__: a further Cache is constructed over the same store,
\* between calls; it has a Redis client of its own and flushes the
\* database. The history starts again with the new instance.
Construct ==
    /\ Quiet
    /\ instances < MaxInstances
    /\ instances' = instances + 1
    /\ redisValid' = TRUE
    /\ counter' = Flushed(counter, PyNone)
    /\ inputs' = Flushed(inputs, <<>>)
    /\ outputs' = Flushed(outputs, <<>>)
    /\ entries' = Flushed(entries, [k \in {} |-> PyNone])
    /\ log' = <<>>
    /\ Observed
    /\ UNCHANGED <<generated, pc, arg, key, cur>>

(* ------------------------------ Cache.get ----------------------------- *)
\* method(data) for the decoder given to get.
Decode(dec, data) ==
    CASE dec = "str" -> StrOf(data)
      [] dec = "int" -> IntOf(data)

\* Cache.get(k, dec): one read of the store, then the decoder if one is
\* given. get_str(k) is get(k, str), get_int(k) is get(k, int).
GetValue(db, k, dec) ==
    IF dec = "none" THEN RedisGet(db, k) ELSE Decode(dec, RedisGet(db, k))

\* Mutant: get removes the key it reads.
GetAndDelete(k, dec) ==
    /\ redisValid
    /\ result' = [key |-> k, decoder |-> dec, value |-> GetValue(entries, k, dec)]
    /\ entries' = [x \in DOMAIN entries \ {k} |-> entries[x]]
    /\ ReplayObserved
    /\ UNCHANGED <<instVars, redisValid, counter, inputs, outputs, callVars>>

\* A call of get on a Cache whose handle is a Redis client.
Get(k, dec) ==
    /\ redisValid
    /\ result' = [key |-> k, decoder |-> dec, value |-> GetValue(entries, k, dec)]
    /\ ReplayObserved
    /\ UNCHANGED <<instVars, redisValid, storeVars, callVars>>

(* ------------------------------- replay ------------------------------- *)
\* f'{name} was called {count} times:'
HeaderLine(count) ==
    QualName \o <<" ", "w", "a", "s", " ", "c", "a", "l", "l", "e", "d", " ">>
        \o IntToChars(count) \o <<" ", "t", "i", "m", "e", "s", ":">>

\* Mutant: the line shows the output before the arrow and the input after.
CallLineSwapped(i, o) ==
    QualName \o <<"(", "*">> \o DecodeUtf8(o).v \o <<")", " ", "-", ">", " ">>
        \o DecodeUtf8(i).v

\* f'{name}(*{i.decode("utf-8")}) -> {o.decode("utf-8")}'
CallLine(i, o) ==
    QualName \o <<"(", "*">> \o DecodeUtf8(i).v \o <<")", " ", "-", ">", " ">>
        \o DecodeUtf8(o).v

\* Mutant: the last pair is not printed.
ZipLinesButLast(ins, outs) ==
    LET n == IF Len(ins) < Len(outs) THEN Len(ins) ELSE Len(outs)
    IN [j \in 1..(n - 1) |-> CallLine(ins[j], outs[j])]

\* zip(ins, outs) rendered: one line per pair, up to the shorter list.
ZipLines(ins, outs) ==
    LET n == IF Len(ins) < Len(outs) THEN Len(ins) ELSE Len(outs)
    IN [j \in 1..n |-> CallLine(ins[j], outs[j])]

\* Mutant: replay does not test the type of the handle it finds.
ReplayProceedsUnchecked(m, valid) == m = "Cache.store"

\* replay, its guards: TRUE when replay goes on to read the store. The
\* reference must not be None, must have __self__, and the _redis of the
\* receiver must be a Redis client.
ReplayProceeds(m, valid) ==
    /\ m # "None"
    /\ m # "function"
    /\ m = "Cache.store" /\ valid

\* replay, the count read from the store: EXISTS, then GET and int().
ReplayCount(cnt) == IF cnt # PyNone THEN IntOf(cnt).v ELSE 0

\* Mutant: replay goes on with a count of 0.
ReplayNeverStops(count) == FALSE

\* replay: it returns before printing anything when the count is 0.
ReplayStops(count) == count = 0

\* replay up to the header line: the guards on the reference and the
\* handle, the EXISTS and GET of the counter, the return on a count of 0.
ReplayBegin(m) ==
    /\ rpc = "idle"
    /\ rmethod' = m
    /\ rinputs' = <<>>
    /\ IF ~ReplayProceeds(m, redisValid)
       THEN /\ rops' = 0
            /\ printed' = <<>>
            /\ rret' = PyNone
            /\ rpc' = "idle"
       ELSE LET count == ReplayCount(counter)
            IN /\ rops' = IF counter # PyNone THEN 2 ELSE 1
               /\ printed' = IF ReplayStops(count) THEN <<>>
                             ELSE <<HeaderLine(count)>>
               /\ rret' = IF ReplayStops(count) THEN PyNone ELSE Pending
               /\ rpc' = IF ReplayStops(count) THEN "idle" ELSE "inputs"
    /\ result' = NoGet
    /\ UNCHANGED <<instVars, redisValid, storeVars, callVars>>

\* replay: LRANGE of the inputs list.
ReplayInputs ==
    /\ rpc = "inputs"
    /\ rinputs' = inputs
    /\ rops' = rops + 1
    /\ rpc' = "outputs"
    /\ result' = NoGet
    /\ UNCHANGED <<instVars, redisValid, storeVars, callVars, rmethod, rret, printed>>

\* replay: LRANGE of the outputs list, then one line per zipped pair.
ReplayOutputs ==
    /\ rpc = "outputs"
    /\ printed' = printed \o ZipLines(rinputs, outputs)
    /\ rops' = rops + 1
    /\ rinputs' = <<>>
    /\ rret' = PyNone
    /\ rpc' = "idle"
    /\ result' = NoGet
    /\ UNCHANGED <<instVars, redisValid, storeVars, callVars, rmethod>>

(* --------------------------- specifications --------------------------- *)
\* A step of an invocation of store, or of a replay, already in progress.
Continue ==
    \/ \E c \in Callers : CallHistory(c)
    \/ \E c \in Callers : StoreSet(c)
    \/ \E c \in Callers : StoreSetFails(c)
    \/ \E c \in Callers : StoreReturn(c)
    \/ ReplayInputs
    \/ ReplayOutputs

\* Callers interleave at the store round trips.
Next ==
    \/ \E c \in Callers, d \in ConcurrentValues : CountCalls(c, d)
    \/ \E k \in UUIDs, dec \in Decoders : Get(k, dec)
    \/ \E m \in MethodRefs : ReplayBegin(m)
    \/ \E b \in BOOLEAN : SetRedisHandle(b)
    \/ Continue

Spec == Init /\ [][Next]_vars

\* One caller: every call runs to its end before the next call starts.
NextSeq ==
    \/ \E d \in DataValues : Quiet /\ CountCalls(1, d)
    \/ \E k \in UUIDs, dec \in Decoders : Quiet /\ Get(k, dec)
    \/ \E m \in MethodRefs : Quiet /\ ReplayBegin(m)
    \/ \E b \in BOOLEAN : SetRedisHandle(b)
    \/ Continue

SpecSeq == Init /\ [][NextSeq]_vars

\* One caller, and further Cache instances constructed over the store.
NextCons ==
    \/ \E d \in ConcurrentValues : Quiet /\ CountCalls(1, d)
    \/ \E k \in AllUUIDs, dec \in Decoders : Quiet /\ Get(k, dec)
    \/ \E m \in MethodRefs : Quiet /\ ReplayBegin(m)
    \/ \E b \in BOOLEAN : SetRedisHandle(b)
    \/ Construct
    \/ Continue

SpecCons == Init /\ [][NextCons]_vars

(* ------------------------------- claims ------------------------------- *)
\* The counter read as a number: an absent key reads as zero.
CounterValue == IF counter = PyNone THEN 0 ELSE IntOf(counter).v

\* No invocation of store is in progress.
AllReturned == \A c \in Callers : pc[c] = "idle"

\* Invocation i returned a key.
Successful(i) == log[i].ret.t = "str"

\* Every invocation so far was made with a Redis client as handle.
AllValid == \A i \in 1..Len(log) : log[i].valid

\* C1: after n consecutive invocations of store on a Cache whose handle is a
\* Redis client, the counter equals n, whether or not some of them raised
\* in the write; the increment comes first, so this holds from the first
\* step of each invocation on.
C1_CounterCountsAttempts == AllValid => CounterValue = Len(log)

\* C1 witness: three invocations, one of which raised, and a counter of 3.
C1_Witness ==
    /\ AllReturned /\ AllValid /\ Len(log) = 3
    /\ \E i \in 1..3 : log[i].ret = Raised("ConnectionError")
    /\ \E i \in 1..3 : Successful(i)
    /\ counter = PyBytes(<<"3">>)

\* C2: after n successful sequential invocations both lists have length n,
\* the i-th input is str(args) of the i-th invocation and the i-th output
\* is the key the i-th invocation returned.
C2_HistoryRecordsCalls ==
    (AllReturned /\ \A i \in 1..Len(log) : Successful(i)) =>
        /\ Len(inputs) = Len(log)
        /\ Len(outputs) = Len(log)
        /\ \A i \in 1..Len(log) :
              /\ inputs[i] = PyBytes(<<"(">> \o Repr(log[i].data) \o <<",", ")">>)
              /\ outputs[i] = PyBytes(log[i].ret.v)

\* C2 witness: store(12), store('fo'), store(2.5), all successful.
C2_Witness ==
    /\ AllReturned /\ Len(log) = 3 /\ \A i \in 1..3 : Successful(i)
    /\ inputs = << PyBytes(<<"(", "1", "2", ",", ")">>),
                   PyBytes(<<"(", "'", "f", "o", "'", ",", ")">>),
                   PyBytes(<<"(", "2", ".", "5", ",", ")">>) >>
    /\ outputs = << PyBytes(<<"u", "1">>), PyBytes(<<"u", "2">>),
                    PyBytes(<<"u", "3">>) >>

\* A call of replay on the bound store method has just ended.
ReplayEnded == rpc = "idle" /\ rmethod = "Cache.store" /\ rret = PyNone

\* The line replay is to print for invocation j.
ExpectedLine(j) ==
    QualName \o <<"(", "*", "(">> \o Repr(log[j].data)
        \o <<",", ")", ")", " ", "-", ">", " ">> \o log[j].ret.v

\* C3: replay after k successful calls prints the header and then exactly k
\* call lines, the j-th showing the arguments and the key of the j-th call.
C3_ReplayPrintsCalls ==
    (ReplayEnded /\ redisValid /\ Len(log) > 0
        /\ \A i \in 1..Len(log) : Successful(i)) =>
        /\ Len(printed) = Len(log) + 1
        /\ \A j \in 1..Len(log) : printed[j + 1] = ExpectedLine(j)

\* C3 witness: replay after store(b'ab'), store(12) prints three lines.
C3_Witness ==
    /\ ReplayEnded
    /\ Len(log) = 2 /\ \A i \in 1..2 : Successful(i)
    /\ Len(printed) = 3
    /\ printed[2] = QualName \o <<"(", "*", "(", "b", "'", "a", "b", "'", ",",
                                  ")", ")", " ", "-", ">", " ", "u", "1">>
    /\ printed[3] = QualName \o <<"(", "*", "(", "1", "2", ",", ")", ")", " ",
                                  "-", ">", " ", "u", "2">>

\* C4: within one invocation the effects come in the order increment, push
\* of the input, write of the entry, push of the output: no state shows a
\* later effect of an invocation without the earlier ones.
C4_EffectsInOrder ==
    \A i \in 1..Len(log) :
        /\ log[i].outRec => log[i].written
        /\ log[i].written => log[i].inRec
        /\ log[i].inRec => log[i].counted

\* C4 witness: an invocation between its write and the push of its output.
C4_Witness ==
    \E c \in Callers :
        /\ pc[c] = "stored"
        /\ log[cur[c]].counted /\ log[cur[c]].inRec /\ log[cur[c]].written
        /\ ~log[cur[c]].outRec
        /\ Len(outputs) < Len(inputs)

\* A call of get with decoder dec has just returned.
GetReturned(dec) == result.value # Pending /\ result.decoder = dec

\* C5: get(store(v)) with no decoder returns v in the store's byte encoding,
\* whatever other calls of store and get were made.
C5_RoundTrip ==
    GetReturned("none") =>
        \A i \in 1..Len(log) :
            log[i].ret = PyStr(result.key) => result.value = Encode(log[i].data)

\* C5 witness: the float stored by the third call is read back as b'2.5'.
C5_Witness ==
    /\ GetReturned("none")
    /\ Len(log) = 3
    /\ log[3].data = PyFloat(2, 5)
    /\ log[3].ret = PyStr(result.key)
    /\ result.value = PyBytes(<<"2", ".", "5">>)

\* The value stored by invocation i is text that is not a number.
NonNumericText(i) ==
    /\ log[i].data.t = "str"
    /\ \E j \in 1..Len(log[i].data.v) :
          ~IsDigit(log[i].data.v[j]) /\ log[i].data.v[j] \notin {"+", "-"}

\* C6: get_str(K) on the key K returned by store(t) for a text t returns
\* the text t.
C6_GetStrReturnsText ==
    GetReturned("str") =>
        \A i \in 1..Len(log) :
            (log[i].ret = PyStr(result.key) /\ log[i].data.t = "str") =>
                result.value = log[i].data

\* C7: with a handle that is no Redis client, no step of an invocation of
\* store changes the store, the wrapped write is never reached, and the
\* invocation returns None.
C7_InvalidHandleNoOp ==
    [][\A c \in Callers :
          (pc'[c] # pc[c] /\ ~redisValid) =>
              /\ UNCHANGED storeVars
              /\ pc'[c] \notin {"method", "stored"}
              /\ pc'[c] = "idle" => log'[cur[c]].ret = PyNone]_vars

\* C7 witness: an invocation made with no Redis client returned None after
\* one made with one, and the store records the first only.
C7_Witness ==
    /\ AllReturned /\ Len(log) = 2
    /\ log[1].valid /\ Successful(1)
    /\ ~log[2].valid /\ log[2].ret = PyNone
    /\ counter = PyBytes(<<"1">>)
    /\ Len(inputs) = 1 /\ Len(outputs) = 1
    /\ Cardinality(DOMAIN entries) = 1

\* C8: replay with no recorded call (the counter key is absent, or reads as
\* zero) prints nothing and does not read the lists.
C8_ReplayOfNothing ==
    (ReplayEnded /\ redisValid /\ CounterValue = 0) =>
        printed = <<>> /\ rops <= 1

\* C8 witness: replay of the bound method on a fresh Cache.
C8_Witness ==
    /\ ReplayEnded /\ redisValid
    /\ counter = PyNone
    /\ printed = <<>> /\ rops = 1

\* C9: replay given None, a reference with no receiver, or a receiver with
\* no valid store handle prints nothing, returns without raising and makes
\* no round trip to any store.
C9_ReplayGuards ==
    (rpc = "idle" /\ rmethod # NoReplay
        /\ (rmethod \in {"None", "function", "bound_other"} \/ ~redisValid)) =>
        printed = <<>> /\ rret = PyNone /\ rops = 0

\* C9 witness: replay of the bound method while the handle is no Redis
\* client, with calls recorded in the store.
C9_Witness ==
    /\ ReplayEnded /\ ~redisValid
    /\ CounterValue = 2 /\ Len(inputs) = 2 /\ Len(outputs) = 2
    /\ printed = <<>> /\ rops = 0

\* C10: get(K, int) on a key holding non-numeric text raises ValueError to
\* the caller and leaves the store unchanged.
C10_GetIntFails ==
    [][(result'.value # Pending /\ result'.decoder = "int"
          /\ \E i \in 1..Len(log) :
                log[i].ret = PyStr(result'.key) /\ NonNumericText(i)) =>
          (result'.value = Raised("ValueError") /\ UNCHANGED storeVars)]_vars

\* C10 witness: get_int on the key of store('fo') raised ValueError.
C10_Witness ==
    /\ GetReturned("int")
    /\ result.key \in DOMAIN entries
    /\ entries[result.key] = PyBytes(<<"f", "o">>)
    /\ result.value = Raised("ValueError")

\* C11: get on a key absent from the store returns None, with no decoder
\* and with the decoders of get_str and get_int alike.
C11_AbsentKeyReadsNone ==
    (result.value # Pending /\ result.key \notin DOMAIN entries) =>
        result.value = PyNone

\* C12: every key returned by store on this Cache instance still maps to
\* the value it was stored with, and no two invocations returned the same
\* key, whatever calls of store, get and replay were made since.
C12_EntriesImmutable ==
    \A i \in 1..Len(log) :
        Successful(i) =>
            /\ log[i].ret.v \in DOMAIN entries
            /\ entries[log[i].ret.v] = Encode(log[i].data)
            /\ \A j \in 1..Len(log) : log[j].ret = log[i].ret => j = i

\* C12 witness: after store('fo'), store(12) and a call of replay the two
\* keys hold b'fo' and b'12'.
C12_Witness ==
    /\ ReplayEnded /\ Len(printed) = 3
    /\ Len(log) = 2 /\ Successful(1) /\ Successful(2)
    /\ log[1].ret # log[2].ret
    /\ entries[log[1].ret.v] = PyBytes(<<"f", "o">>)
    /\ entries[log[2].ret.v] = PyBytes(<<"1", "2">>)

\* The step is a call of get (get, get_str or get_int).
GetStep == result'.value # Pending

\* The step is a step of replay.
ReplayStep == rpc' # rpc \/ (rpc = "idle" /\ rmethod' # NoReplay)

\* C13: no step of replay and no call of get, get_str or get_int changes
\* the counter, the inputs list, the outputs list or a cache entry, whether
\* the call prints, returns or raises.
C13_ReadersChangeNothing ==
    [][(GetStep \/ ReplayStep) => UNCHANGED storeVars]_vars

\* C13 witness: get_int has raised on a stored key while a replay that has
\* printed its header is in progress.
C13_Witness ==
    /\ GetReturned("int") /\ result.value = Raised("ValueError")
    /\ result.key \in DOMAIN entries
    /\ rpc = "outputs" /\ Len(printed) = 1

\* The invocations made with a Redis client as handle.
ValidCalls == { i \in 1..Len(log) : log[i].valid }

\* The invocations that returned a key.
SuccessfulCalls == { i \in 1..Len(log) : Successful(i) }

\* The number of positions of list that hold x.
Occurrences(list, x) == Cardinality({ j \in 1..Len(list) : list[j] = x })

\* C14 as stated: once the interleaved invocations have all completed, the
\* counter equals the number of invocations, and the inputs list and the
\* outputs list each hold one element per successful invocation.
C14_OnePerSuccessfulCall ==
    (AllReturned /\ AllValid) =>
        /\ CounterValue = Len(log)
        /\ Len(inputs) = Cardinality(SuccessfulCalls)
        /\ Len(outputs) = Cardinality(SuccessfulCalls)

\* C14 amended: once the interleaved invocations have all completed, the
\* counter equals the number of invocations made with a Redis client, the
\* inputs list holds exactly one element per such invocation (also for one
\* whose write then raised) and the outputs list exactly one element per
\* successful invocation: no increment or append is lost or duplicated.
C14_NothingLostOrDuplicated ==
    AllReturned =>
        /\ CounterValue = Cardinality(ValidCalls)
        /\ Len(inputs) = Cardinality(ValidCalls)
        /\ \A d \in DataValues :
              Occurrences(inputs, Encode(StrArgs(d)))
                  = Cardinality({ i \in ValidCalls : log[i].data = d })
        /\ Len(outputs) = Cardinality(SuccessfulCalls)
        /\ \A i \in SuccessfulCalls :
              Occurrences(outputs, PyBytes(log[i].ret.v)) = 1

\* C14 witness: three invocations have completed, the third one raised, and
\* the second one pushed its input before the first one did.
C14_Witness ==
    /\ AllReturned /\ AllValid /\ Len(log) = 3
    /\ Successful(1) /\ Successful(2)
    /\ log[3].ret = Raised("ConnectionError")
    /\ log[1].data = PyStr(<<"f", "o">>) /\ log[2].data = PyInt(12)
    /\ inputs[1] = PyBytes(<<"(", "1", "2", ",", ")">>)
    /\ counter = PyBytes(<<"3">>)
    /\ Len(inputs) = 3 /\ Len(outputs) = 2

\* C15: replay pairs the lists by position and not by invocation, so with
\* the lists interleaved by concurrent invocations it prints an argument
\* next to the key of another invocation.
C15_ReplayPairsByPosition ==
    (ReplayEnded /\ redisValid) =>
        \A j \in 1..(Len(printed) - 1) :
            /\ j <= Len(inputs) /\ j <= Len(outputs)
            /\ printed[j + 1] = QualName \o <<"(", "*">> \o inputs[j].v
                                  \o <<")", " ", "-", ">", " ">> \o outputs[j].v

\* C15 witness: two concurrent invocations, both successful, left 'fo' at
\* position 1 of the inputs and, at position 1 of the outputs, the key that
\* holds 12; replay printed the two side by side.
C15_Witness ==
    /\ ReplayEnded /\ AllReturned /\ Len(printed) = 3
    /\ Len(log) = 2 /\ Successful(1) /\ Successful(2)
    /\ inputs[1] = PyBytes(<<"(", "'", "f", "o", "'", ",", ")">>)
    /\ entries[outputs[1].v] = PyBytes(<<"1", "2">>)
    /\ printed[2] = QualName \o <<"(", "*", "(", "'", "f", "o", "'", ",", ")",
                                  ")", " ", "-", ">", " ">> \o outputs[1].v

\* C20: in every state of one Cache instance, whatever the interleaving of
\* successful and failing invocations, the outputs list is no longer than
\* the inputs list, the inputs list no longer than the counter value, and
\* the entries written are at least as many as the outputs.
C20_LengthsOrdered ==
    /\ Len(outputs) <= Len(inputs)
    /\ Len(inputs) <= CounterValue
    /\ Cardinality(DOMAIN entries) >= Len(outputs)

\* C20 witness: two invocations in progress, one counted only and one that
\* has written its entry, after one that completed.
C20_Witness ==
    /\ Len(outputs) = 1 /\ Len(inputs) = 2 /\ CounterValue = 3
    /\ Cardinality(DOMAIN entries) = 2
    /\ \E c \in Callers : pc[c] = "history"
    /\ \E c \in Callers : pc[c] = "stored"

\* The invocations whose write raised.
FailedCalls == { i \in 1..Len(log) : log[i].ret = Raised("ConnectionError") }

\* C16: an invocation whose write fails raises the failure to its caller,
\* and leaves the counter incremented by one, the inputs list longer by
\* one, the outputs list and the entries as they were: with s successful
\* and f failed sequential invocations the counter and the inputs list
\* stand at s + f, the outputs list and the entries at s.
C16_FailedWriteKeepsRecords ==
    AllReturned =>
        /\ \A i \in ValidCalls :
              ~Successful(i) =>
                  /\ log[i].ret = Raised("ConnectionError")
                  /\ log[i].counted /\ log[i].inRec
                  /\ ~log[i].written /\ ~log[i].outRec
        /\ CounterValue = Cardinality(SuccessfulCalls) + Cardinality(FailedCalls)
        /\ Len(inputs) = Cardinality(SuccessfulCalls) + Cardinality(FailedCalls)
        /\ Len(outputs) = Cardinality(SuccessfulCalls)
        /\ Cardinality(DOMAIN entries) = Cardinality(SuccessfulCalls)

\* C16 witness: store(12) succeeded and store('fo') then raised in the
\* write; its input is recorded, with no output and no entry.
C16_Witness ==
    /\ AllReturned /\ Len(log) = 2
    /\ Successful(1) /\ log[2].ret = Raised("ConnectionError")
    /\ counter = PyBytes(<<"2">>)
    /\ inputs = << PyBytes(<<"(", "1", "2", ",", ")">>),
                   PyBytes(<<"(", "'", "f", "o", "'", ",", ")">>) >>
    /\ outputs = << PyBytes(<<"u", "1">>) >>
    /\ DOMAIN entries = { <<"u", "1">> }

\* C17: in a sequential history with failed writes, every line replay
\* prints pairs the input of an invocation with the output of that same
\* invocation, the lines being those of the successful invocations in
\* order.
C17_LinesPairSameCall ==
    (ReplayEnded /\ redisValid /\ Len(printed) > 0) =>
        /\ Len(printed) = 1 + Cardinality(SuccessfulCalls)
        /\ \A j \in 2..Len(printed) :
              \E i \in SuccessfulCalls : printed[j] = ExpectedLine(i)

\* The smaller of two numbers.
Min(a, b) == IF a < b THEN a ELSE b

\* C18: with a counter that is not zero replay prints the header line with
\* the identity and the counter value, then min(length of inputs, length
\* of outputs) call lines in list order; the count of the header can exceed
\* the number of call lines.
C18_HeaderThenZippedLines ==
    (ReplayEnded /\ redisValid /\ CounterValue # 0) =>
        /\ Len(printed) = 1 + Min(Len(inputs), Len(outputs))
        /\ printed[1] = HeaderLine(CounterValue)
        /\ \A j \in 1..Min(Len(inputs), Len(outputs)) :
              printed[j + 1] = CallLine(inputs[j], outputs[j])
        /\ CounterValue >= Len(printed) - 1

\* C18 witness: after one successful and one failed invocation replay
\* prints a header with the count 2 and one call line.
C18_Witness ==
    /\ ReplayEnded /\ redisValid
    /\ Len(inputs) = 2 /\ Len(outputs) = 1
    /\ Len(printed) = 2
    /\ printed[1] = QualName \o <<" ", "w", "a", "s", " ", "c", "a", "l", "l",
                                  "e", "d", " ", "2", " ", "t", "i", "m", "e",
                                  "s", ":">>

\* C19: the construction of a Cache clears the store: right after it the
\* counter key is absent, both lists are empty and every key uuid4 has
\* returned so far reads as absent; and at all times the counter and the
\* lists count the invocations made since the latest construction only.
C19_ConstructionClearsStore ==
    /\ [][instances' # instances =>
            /\ counter' = PyNone
            /\ inputs' = <<>>
            /\ outputs' = <<>>
            /\ \A i \in 1..generated :
                  GetValue(entries', UUID(i), "none") = PyNone]_vars
    /\ [](/\ CounterValue = Cardinality(ValidCalls)
          /\ Len(inputs) <= Cardinality(ValidCalls)
          /\ AllReturned => Len(outputs) = Cardinality(SuccessfulCalls))

\* C19 witness: a second Cache was constructed after two stores; get on the
\* first key returns None and the counter key is absent.
C19_Witness ==
    /\ instances = 2 /\ generated = 2
    /\ counter = PyNone /\ inputs = <<>> /\ outputs = <<>>
    /\ GetReturned("none")
    /\ result.key = <<"u", "1">> /\ result.value = PyNone

====
